---- MODULE Spec2Model ----
(***************************************************************************)
(* A model of turing-sim-rs (src/src/main.rs): the two-sided growable      *)
(* Tape, the raw interpreter TuringMachine::step / run, and the block      *)
(* compiler TuringMachine::compile with its packed CompiledStep encoding.  *)
(*                                                                         *)
(* Block values (the generic unsigned T) are naturals below 2^bits, where  *)
(* bits = 8 * size_of::<T>() is a power of two.  Bit k of a block is       *)
(* (x \div 2^k) % 2.  Vectors are 1-based sequences, so vec[n] of the      *)
(* source is vec[n + 1] here.                                              *)
(***************************************************************************)
EXTENDS Integers, Sequences, FiniteSets, TLC

VARIABLES
    states,      \* TuringMachine.states: the transition table
    state,       \* TuringMachine.state of the machine driven by step / run
    bits,        \* 8 * size_of::<T>(): cells per block
    right,       \* Tape.right
    left,        \* Tape.left
    vec_index,   \* Tape.vec_index
    bit_index,   \* Tape.bit_index
    half,        \* Tape.half
    self_state,  \* self.state of the machine moved into compile
    steps,       \* compile: the vector `steps`, returned as lut: its length, and
                 \* the entries assigned so far (the others hold the initial value)
    i,           \* compile: the for-loop index
    tape,        \* compile: the in-register block `tape`
    position,    \* compile: `position`
    exited,      \* compile: `exited`
    pc,          \* control position
    visited,     \* history: the registers each while iteration of this slot began with
    nstep,       \* history: calls of TuringMachine::step
    moved,       \* history: calls of move_tape made directly, per direction
    enumerated,  \* history: the (state, entry, content) of each for iteration
    written,     \* history: the indices assigned in `steps`, in order
    blk          \* the Tape block a block-local raw run is confined to

vars == <<states, state, bits, right, left, vec_index, bit_index, half,
          self_state, steps, i, tape, position, exited, pc,
          visited, nstep, moved, enumerated, written, blk>>

tapeVars == <<right, left, vec_index, bit_index, half>>
compileVars == <<self_state, steps, i, tape, position, exited>>
historyVars == <<visited, nstep, moved, enumerated, written>>

-----------------------------------------------------------------------------
(* Bounds of the model *)

\* block widths are 2^0 .. 2^MaxLogBits
MaxLogBits == 2
\* direct move_tape calls made on a Tape
MaxMoves == 6
\* calls of step made by run
MaxSteps == 20

-----------------------------------------------------------------------------
(* Primitives *)

Zero == 0
One == 1
Bit == {Zero, One}

Left == "Left"
Right == "Right"
TapeMotion == {Left, Right}

None == "None"

HALT == <<"HALT">>
Index(n) == <<"Index", n>>
IsIndex(s) == s[1] = "Index"
IndexOf(s) == s[2]

Pow2(n) == 2 ^ n

Widths == {Pow2(k) : k \in 0..MaxLogBits}

\* get_bit: x & (1 << pos) == 0 ? Zero : One
get_bit(x, pos) == IF (x \div Pow2(pos)) % 2 = 0 THEN Zero ELSE One

\* set_bit: x & !(1 << pos) for Zero, x | (1 << pos) for One
set_bit(x, pos, b) ==
    IF b = Zero
    THEN x - get_bit(x, pos) * Pow2(pos)
    ELSE x + (1 - get_bit(x, pos)) * Pow2(pos)

RECURSIVE BitOr(_, _)
\* a | b on naturals
BitOr(a, b) ==
    IF a = 0 THEN b
    ELSE IF b = 0 THEN a
    ELSE (IF a % 2 = 1 \/ b % 2 = 1 THEN 1 ELSE 0) + 2 * BitOr(a \div 2, b \div 2)

RECURSIVE ilog2(_)
\* usize::ilog2: floor of the base-2 logarithm
ilog2(n) == IF n <= 1 THEN 0 ELSE 1 + ilog2(n \div 2)

-----------------------------------------------------------------------------
(* Transition tables *)

TuringStep(p, m, n) == [print |-> p, motion |-> m, next_state |-> n]
TuringState(z, o) == [zero |-> z, one |-> o]

\* the turing_machine! macro: a state given as a number n becomes Index(n)
\* through From<usize>, HALT stays HALT
BB2_MACH ==
    << TuringState(TuringStep(One, Right, Index(1)), TuringStep(One, Left, Index(1))),
       TuringState(TuringStep(One, Left, Index(0)), TuringStep(One, Right, HALT)) >>

BB3_MACH ==
    << TuringState(TuringStep(One, Right, Index(1)), TuringStep(One, Left, Index(2))),
       TuringState(TuringStep(One, Left, Index(0)), TuringStep(One, Right, Index(1))),
       TuringState(TuringStep(One, Left, Index(1)), TuringStep(One, Right, HALT)) >>

COPY_MACH ==
    << TuringState(TuringStep(Zero, Right, HALT), TuringStep(Zero, Right, Index(1))),
       TuringState(TuringStep(Zero, Right, Index(2)), TuringStep(One, Right, Index(1))),
       TuringState(TuringStep(One, Left, Index(3)), TuringStep(One, Right, Index(2))),
       TuringState(TuringStep(Zero, Left, Index(4)), TuringStep(One, Left, Index(3))),
       TuringState(TuringStep(One, Right, Index(0)), TuringStep(One, Left, Index(4))) >>

\* every step whose next state is HALT or an index below n
StepsOf(n) ==
    {TuringStep(p, m, ns) : p \in Bit, m \in TapeMotion,
                            ns \in {HALT} \cup {Index(k) : k \in 0..(n - 1)}}

\* every table of one state
OneStateMachines ==
    {<<TuringState(z, o)>> : z \in StepsOf(1), o \in StepsOf(1)}

\* the tables the model runs: the ones of the source and every one-state table
Machines == {BB2_MACH, BB3_MACH, COPY_MACH} \cup OneStateMachines

N == Len(states)

-----------------------------------------------------------------------------
(* Tape *)

TapeRec == [right |-> right, left |-> left, vec_index |-> vec_index,
            bit_index |-> bit_index, half |-> half]

\* Tape::new
NewTape == [right |-> <<0>>, left |-> <<0>>, vec_index |-> 0,
            bit_index |-> 0, half |-> Right]

\* Tape::get
get(t) ==
    LET vec == IF t.half = Left THEN t.left ELSE t.right
        vec_value == vec[t.vec_index + 1]
    IN  get_bit(vec_value, t.bit_index)

\* set as it would be with the two halves of its match swapped
set_other_half(t, b) ==
    IF t.half = Left
    THEN [t EXCEPT !.right[t.vec_index + 1] = set_bit(@, t.bit_index, b)]
    ELSE [t EXCEPT !.left[t.vec_index + 1] = set_bit(@, t.bit_index, b)]

\* Tape::set
set(t, b) ==
    IF t.half = Left
    THEN [t EXCEPT !.left[t.vec_index + 1] = set_bit(@, t.bit_index, b)]
    ELSE [t EXCEPT !.right[t.vec_index + 1] = set_bit(@, t.bit_index, b)]

\* move_tape as it would be if the outward move into the next block left
\* bit_index at bits - 1 instead of resetting it to 0
move_tape_noreset(t, motion, w) ==
    IF t.half = motion
    THEN IF t.bit_index = w - 1
         THEN LET vi == t.vec_index + 1
                  vec == IF t.half = Left THEN t.left ELSE t.right
                  grown == IF vi = Len(vec) THEN Append(vec, 0) ELSE vec
              IN  IF t.half = Left
                  THEN [t EXCEPT !.vec_index = vi, !.left = grown]
                  ELSE [t EXCEPT !.vec_index = vi, !.right = grown]
         ELSE [t EXCEPT !.bit_index = @ + 1]
    ELSE IF t.bit_index = 0
         THEN IF t.vec_index = 0
              THEN [t EXCEPT !.half = IF @ = Left THEN Right ELSE Left]
              ELSE [t EXCEPT !.bit_index = w - 1, !.vec_index = @ - 1]
         ELSE [t EXCEPT !.bit_index = @ - 1]

\* move_tape as it would be if the outward move tested bit_index == bits
\* instead of bits - 1
move_tape_late(t, motion, w) ==
    IF t.half = motion
    THEN IF t.bit_index = w
         THEN LET vi == t.vec_index + 1
                  vec == IF t.half = Left THEN t.left ELSE t.right
                  grown == IF vi = Len(vec) THEN Append(vec, 0) ELSE vec
              IN  IF t.half = Left
                  THEN [t EXCEPT !.bit_index = 0, !.vec_index = vi, !.left = grown]
                  ELSE [t EXCEPT !.bit_index = 0, !.vec_index = vi, !.right = grown]
         ELSE [t EXCEPT !.bit_index = @ + 1]
    ELSE IF t.bit_index = 0
         THEN IF t.vec_index = 0
              THEN [t EXCEPT !.half = IF @ = Left THEN Right ELSE Left]
              ELSE [t EXCEPT !.bit_index = w - 1, !.vec_index = @ - 1]
         ELSE [t EXCEPT !.bit_index = @ - 1]

\* move_tape without the push that grows the active half
move_tape_nogrow(t, motion, w) ==
    IF t.half = motion
    THEN IF t.bit_index = w - 1
         THEN [t EXCEPT !.bit_index = 0, !.vec_index = @ + 1]
         ELSE [t EXCEPT !.bit_index = @ + 1]
    ELSE IF t.bit_index = 0
         THEN IF t.vec_index = 0
              THEN [t EXCEPT !.half = IF @ = Left THEN Right ELSE Left]
              ELSE [t EXCEPT !.bit_index = w - 1, !.vec_index = @ - 1]
         ELSE [t EXCEPT !.bit_index = @ - 1]

\* move_tape pushing its new block onto the half the cursor is not in
move_tape_wrong_half(t, motion, w) ==
    IF t.half = motion
    THEN IF t.bit_index = w - 1
         THEN LET vi == t.vec_index + 1
                  vec == IF t.half = Left THEN t.left ELSE t.right
                  other == IF t.half = Left THEN t.right ELSE t.left
                  grown == IF vi = Len(vec) THEN Append(other, 0) ELSE other
              IN  IF t.half = Left
                  THEN [t EXCEPT !.bit_index = 0, !.vec_index = vi, !.right = grown]
                  ELSE [t EXCEPT !.bit_index = 0, !.vec_index = vi, !.left = grown]
         ELSE [t EXCEPT !.bit_index = @ + 1]
    ELSE IF t.bit_index = 0
         THEN IF t.vec_index = 0
              THEN [t EXCEPT !.half = IF @ = Left THEN Right ELSE Left]
              ELSE [t EXCEPT !.bit_index = w - 1, !.vec_index = @ - 1]
         ELSE [t EXCEPT !.bit_index = @ - 1]

\* Tape::move_tape, w = 8 * size_of::<T>()
move_tape(t, motion, w) ==
    IF t.half = motion
    THEN \* (Left, Left) | (Right, Right)
         IF t.bit_index = w - 1
         THEN LET vi == t.vec_index + 1
                  vec == IF t.half = Left THEN t.left ELSE t.right
                  grown == IF vi = Len(vec) THEN Append(vec, 0) ELSE vec
              IN  IF t.half = Left
                  THEN [t EXCEPT !.bit_index = 0, !.vec_index = vi, !.left = grown]
                  ELSE [t EXCEPT !.bit_index = 0, !.vec_index = vi, !.right = grown]
         ELSE [t EXCEPT !.bit_index = @ + 1]
    ELSE \* (Left, Right) | (Right, Left)
         IF t.bit_index = 0
         THEN IF t.vec_index = 0
              THEN [t EXCEPT !.half = IF @ = Left THEN Right ELSE Left]
              ELSE [t EXCEPT !.bit_index = w - 1, !.vec_index = @ - 1]
         ELSE [t EXCEPT !.bit_index = @ - 1]

\* get_index negating instead of complementing on the left half
get_index_neg(t, w) ==
    LET shift == ilog2(w)
        x == BitOr(t.vec_index * Pow2(shift), t.bit_index)
    IN  IF t.half = Right THEN x ELSE -x

\* Tape::get_index: !x as isize is -x - 1
get_index(t, w) ==
    LET shift == ilog2(w)
        x == BitOr(t.vec_index * Pow2(shift), t.bit_index)
    IN  IF t.half = Right THEN x ELSE -x - 1

\* Tape::get_display_index
get_display_index(t, w) == Len(t.left) * w + get_index(t, w)

\* as_bits without the .rev() of its range
as_bits_norev(x, w) ==
    [k \in 1..w |-> IF (x \div Pow2(k - 1)) % 2 = 1 THEN "1" ELSE "0"]

\* as_bits: the characters of x for i = w-1 down to 0
as_bits(x, w) ==
    [k \in 1..w |-> IF (x \div Pow2(w - k)) % 2 = 1 THEN "1" ELSE "0"]

\* as_bits_rev: the characters of x for i = 0 up to w-1
as_bits_rev(x, w) ==
    [k \in 1..w |-> IF (x \div Pow2(k - 1)) % 2 = 1 THEN "1" ELSE "0"]

\* collect() of an iterator of Strings into one String
RECURSIVE collect(_)
collect(strs) ==
    IF strs = <<>> THEN <<>> ELSE Head(strs) \o collect(Tail(strs))

\* Display for Tape: left.iter().rev() through as_bits chained with
\* right.iter() through as_bits_rev
fmt(t, w) ==
    collect([k \in 1..Len(t.left) |-> as_bits(t.left[Len(t.left) - k + 1], w)]
            \o [k \in 1..Len(t.right) |-> as_bits_rev(t.right[k], w)])

\* the Tape fields after an operation that leaves the Tape as t
TapeBecomes(t) ==
    /\ right' = t.right
    /\ left' = t.left
    /\ vec_index' = t.vec_index
    /\ bit_index' = t.bit_index
    /\ half' = t.half

-----------------------------------------------------------------------------
(* Raw interpreter *)

\* step as it would be if it moved the tape before writing
step_move_first(table, t, st, w) ==
    LET stp == IF get(t) = Zero THEN table[st + 1].zero ELSE table[st + 1].one
    IN  [tape |-> set(move_tape(t, stp.motion, w), stp.print),
         state |-> stp.next_state]

\* TuringMachine::step on Tape t in state index st: the Tape and the machine
\* state it leaves
step(table, t, st, w) ==
    LET stp == IF get(t) = Zero THEN table[st + 1].zero ELSE table[st + 1].one
    IN  [tape |-> move_tape(set(t, stp.print), stp.motion, w),
         state |-> stp.next_state]

\* no vector
NoSteps == [len |-> 0, at |-> <<>>]

\* values of the variables an operation does not have
CompileIdle ==
    /\ self_state = Index(0)
    /\ steps = NoSteps
    /\ i = 0
    /\ tape = 0
    /\ position = 0
    /\ exited = None

HistoryZero ==
    /\ visited = {}
    /\ nstep = 0
    /\ moved = [m \in TapeMotion |-> 0]
    /\ enumerated = <<>>
    /\ written = <<>>

NoBlock == [half |-> Right, index |-> 0, value |-> 0]

-----------------------------------------------------------------------------
(* Tape operations called directly on a Tape::new() *)

InitTape ==
    /\ states = BB2_MACH
    /\ state = Index(0)
    /\ bits \in Widths
    /\ right = NewTape.right
    /\ left = NewTape.left
    /\ vec_index = NewTape.vec_index
    /\ bit_index = NewTape.bit_index
    /\ half = NewTape.half
    /\ CompileIdle
    /\ HistoryZero
    /\ blk = NoBlock
    /\ pc = "tape"

MoveTape(motion) ==
    /\ pc = "tape"
    /\ moved[Left] + moved[Right] < MaxMoves
    /\ TapeBecomes(move_tape(TapeRec, motion, bits))
    /\ moved' = [moved EXCEPT ![motion] = @ + 1]
    /\ UNCHANGED <<states, state, bits, compileVars, pc, visited, nstep,
                   enumerated, written, blk>>

Set(b) ==
    /\ pc = "tape"
    /\ TapeBecomes(set(TapeRec, b))
    /\ UNCHANGED <<states, state, bits, compileVars, pc, historyVars, blk>>

\* Tape::get reads the cursor's cell and changes nothing
Get ==
    /\ pc = "tape"
    /\ get(TapeRec) \in Bit
    /\ UNCHANGED vars

NextTape ==
    \/ \E motion \in TapeMotion : MoveTape(motion)
    \/ \E b \in Bit : Set(b)
    \/ Get

SpecTape == InitTape /\ [][NextTape]_vars

-----------------------------------------------------------------------------
(* TuringMachine::run *)

\* main: tape.right[0] = 0x03
MainSeed == 3

InitRun ==
    /\ states \in Machines
    /\ state = Index(0)
    /\ bits \in Widths
    /\ \E v \in {x \in {0, MainSeed} : x < Pow2(bits)} :
          /\ right = <<v>>
          /\ blk = [half |-> Right, index |-> 0, value |-> v]
    /\ left = <<0>>
    /\ vec_index = 0
    /\ bit_index = 0
    /\ half = Right
    /\ CompileIdle
    /\ HistoryZero
    /\ pc = "run"

\* one iteration of run's while let Index(state) = self.state
RunStep ==
    /\ pc = "run"
    /\ IsIndex(state)
    /\ IndexOf(state) < N
    /\ nstep < MaxSteps
    /\ LET r == step(states, TapeRec, IndexOf(state), bits)
       IN  /\ TapeBecomes(r.tape)
           /\ state' = r.state
    /\ nstep' = nstep + 1
    /\ UNCHANGED <<states, bits, compileVars, pc, visited, moved, enumerated,
                   written, blk>>

\* run leaving its loop without testing the state
RunReturn_any ==
    /\ pc = "run"
    /\ pc' = "returned"
    /\ UNCHANGED <<states, state, bits, tapeVars, compileVars, historyVars, blk>>

\* the while let fails: run returns
RunReturn ==
    /\ pc = "run"
    /\ ~IsIndex(state)
    /\ pc' = "returned"
    /\ UNCHANGED <<states, state, bits, tapeVars, compileVars, historyVars, blk>>

NextRun == RunStep \/ RunReturn

SpecRun == InitRun /\ [][NextRun]_vars

-----------------------------------------------------------------------------
(* turing_machine! followed by run: the macro builds the table from the rows
   it is given, whatever their next states *)

\* the rows the macro can be given for a table of n states: $state.into()
\* accepts HALT and any usize, here up to n
RowsOf(n) ==
    {TuringStep(p, m, ns) : p \in Bit, m \in TapeMotion,
                            ns \in {HALT} \cup {Index(k) : k \in 0..n}}

InitBuild ==
    /\ states \in {<<TuringState(z, o)>> : z \in RowsOf(1), o \in RowsOf(1)}
    /\ state = Index(0)
    /\ bits \in Widths
    /\ right = <<0>>
    /\ left = <<0>>
    /\ vec_index = 0
    /\ bit_index = 0
    /\ half = Right
    /\ blk = NoBlock
    /\ CompileIdle
    /\ HistoryZero
    /\ pc = "macro"

\* turing_machine!: the TuringMachine value is built, state: 0.into()
Construct ==
    /\ pc = "macro"
    /\ state' = Index(0)
    /\ pc' = "run"
    /\ UNCHANGED <<states, bits, tapeVars, compileVars, historyVars, blk>>

\* step: self.states[state] with state outside the array panics
StepPanic ==
    /\ pc = "run"
    /\ IsIndex(state)
    /\ IndexOf(state) >= N
    /\ pc' = "panic"
    /\ UNCHANGED <<states, state, bits, tapeVars, compileVars, historyVars, blk>>

NextBuild == Construct \/ RunStep \/ RunReturn \/ StepPanic

SpecBuild == InitBuild /\ [][NextBuild]_vars

-----------------------------------------------------------------------------
(* CompiledStep *)

CompiledStep(t, ds) == [tape |-> t, direction_state |-> ds]

\* CompiledStep::get_direction
get_direction(cs) ==
    IF cs.direction_state % 2 = 0 THEN Left ELSE Right

\* get_state as it would be if the sentinel were compared as !0, unshifted
get_state_unshifted(cs) ==
    LET result == cs.direction_state \div 2
    IN  IF result = 255 THEN -1 ELSE result

\* CompiledStep::get_state: !0 >> 1 is 0xFF >> 1 on u8
get_state(cs) ==
    LET result == cs.direction_state \div 2
    IN  IF result = 255 \div 2 THEN -1 ELSE result

-----------------------------------------------------------------------------
(* TuringMachine::compile *)

\* i8::MAX
I8_MAX == 127

\* num_steps as it would be without the factor for the entry side
num_steps_no_entry(n, w) == (n * 1) * Pow2(w)

\* N * 2 * 1 << bits: the product is shifted
num_steps(n, w) == (n * 2 * 1) * Pow2(w)

\* i & state_mask, state_mask = !0 >> (8 * size_of::<usize>() - bits)
TapeOf(idx, w) == idx % Pow2(w)

\* i & (1 << bits)
EntryOf(idx, w) == ((idx \div Pow2(w)) % 2) * Pow2(w)

\* i >> bits + 1: the shift is by bits + 1
StateOf(idx, w) == idx \div Pow2(w + 1)

\* the initial position with the two match arms swapped
EntryPosition_swapped(idx, w) == IF EntryOf(idx, w) = 0 THEN 0 ELSE w - 1

\* the initial position: 0 => bits - 1, _ => 0
EntryPosition(idx, w) == IF EntryOf(idx, w) = 0 THEN w - 1 ELSE 0

\* the loop body without its two edge guards: every Left adds one to the
\* position and every Right subtracts one
sim_step_unguarded(table, r, w) ==
    LET st == IndexOf(r.state)
        stp == IF get_bit(r.tape, r.position) = Zero
               THEN table[st + 1].zero ELSE table[st + 1].one
        t2 == set_bit(r.tape, r.position, stp.print)
    IN  IF stp.motion = Left
        THEN [tape |-> t2, position |-> r.position + 1,
              exited |-> IF r.position = w - 1 THEN Left ELSE r.exited,
              state |-> stp.next_state]
        ELSE [tape |-> t2, position |-> r.position - 1,
              exited |-> IF r.position = 0 THEN Right ELSE r.exited,
              state |-> stp.next_state]

\* the loop body as it would be if the Left guard tested position == bits
sim_step_late_exit(table, r, w) ==
    LET st == IndexOf(r.state)
        stp == IF get_bit(r.tape, r.position) = Zero
               THEN table[st + 1].zero ELSE table[st + 1].one
        t2 == set_bit(r.tape, r.position, stp.print)
    IN  IF stp.motion = Left /\ r.position = w
        THEN [tape |-> t2, position |-> r.position, exited |-> Left,
              state |-> stp.next_state]
        ELSE IF stp.motion = Right /\ r.position = 0
        THEN [tape |-> t2, position |-> r.position, exited |-> Right,
              state |-> stp.next_state]
        ELSE IF stp.motion = Left
        THEN [tape |-> t2, position |-> r.position + 1, exited |-> r.exited,
              state |-> stp.next_state]
        ELSE [tape |-> t2, position |-> r.position - 1, exited |-> r.exited,
              state |-> stp.next_state]

\* the body of `while exited.is_none()` when self.state is Index(st), on the
\* registers r = [tape, position, exited, state]
sim_step(table, r, w) ==
    LET st == IndexOf(r.state)
        stp == IF get_bit(r.tape, r.position) = Zero
               THEN table[st + 1].zero ELSE table[st + 1].one
        t2 == set_bit(r.tape, r.position, stp.print)
    IN  IF stp.motion = Left /\ r.position = w - 1
        THEN [tape |-> t2, position |-> r.position, exited |-> Left,
              state |-> stp.next_state]
        ELSE IF stp.motion = Right /\ r.position = 0
        THEN [tape |-> t2, position |-> r.position, exited |-> Right,
              state |-> stp.next_state]
        ELSE IF stp.motion = Left
        THEN [tape |-> t2, position |-> r.position + 1, exited |-> r.exited,
              state |-> stp.next_state]
        ELSE [tape |-> t2, position |-> r.position - 1, exited |-> r.exited,
              state |-> stp.next_state]

\* vec![CompiledStep { tape: T::zero(), direction_state: 0 }; n]
NewSteps(n) == [len |-> n, at |-> <<>>]

\* v[k]
At(v, k) == IF k \in DOMAIN v.at THEN v.at[k] ELSE CompiledStep(0, 0)

\* v[k] = cs, k < v.len()
Assign(v, k, cs) ==
    [v EXCEPT !.at = [j \in (DOMAIN v.at) \cup {k} |-> IF j = k THEN cs ELSE v.at[j]]]

\* Index<CompiledStep> for CompiledTuringMachine: the position in lut,
\* index.tape | (index.direction_state as usize) << bits
lut_index(cs, w) == BitOr(cs.tape, cs.direction_state * Pow2(w))

\* the u8 direction_state: (Index(state) => state as u8, HALT => !0 << 1)
\* | (None | Some(Right) => 0, Some(Left) => 1)
direction_state(st, ex) ==
    BitOr(IF IsIndex(st) THEN IndexOf(st) % 256 ELSE (255 * 2) % 256,
          IF ex = Left THEN 1 ELSE 0)

SimRegs == [tape |-> tape, position |-> position, exited |-> exited,
            state |-> self_state]

SimEnded == exited # None \/ ~IsIndex(self_state)

\* assert!(N < i8::MAX), the allocation of steps, the for loop's start
CompileStart ==
    /\ pc = "compile"
    /\ N < I8_MAX
    /\ steps' = NewSteps(num_steps(N, bits))
    /\ i' = 0
    /\ pc' = "for"
    /\ UNCHANGED <<states, state, bits, tapeVars, self_state, tape, position,
                   exited, historyVars, blk>>

\* the loop body's start without `self.state = Index(i >> bits + 1)`
ForBegin_keep_state ==
    /\ pc = "for"
    /\ i < num_steps(N, bits)
    /\ tape' = TapeOf(i, bits)
    /\ position' = EntryPosition(i, bits)
    /\ exited' = None
    /\ pc' = "while"
    /\ visited' = {}
    /\ enumerated' = Append(enumerated,
                            <<StateOf(i, bits), EntryOf(i, bits), TapeOf(i, bits)>>)
    /\ UNCHANGED <<states, state, bits, tapeVars, self_state, steps, i, nstep,
                   moved, written, blk>>

\* for i in 0..num_steps: the loop body up to the while loop
ForBegin ==
    /\ pc = "for"
    /\ i < num_steps(N, bits)
    /\ tape' = TapeOf(i, bits)
    /\ position' = EntryPosition(i, bits)
    /\ self_state' = Index(StateOf(i, bits))
    /\ exited' = None
    /\ pc' = "while"
    /\ visited' = {}
    /\ enumerated' = Append(enumerated,
                            <<StateOf(i, bits), EntryOf(i, bits), TapeOf(i, bits)>>)
    /\ UNCHANGED <<states, state, bits, tapeVars, steps, i, nstep, moved,
                   written, blk>>

\* one iteration of while exited.is_none() with self.state an Index
While ==
    /\ pc = "while"
    /\ exited = None
    /\ IsIndex(self_state)
    /\ LET r == sim_step(states, SimRegs, bits)
       IN  /\ tape' = r.tape
           /\ position' = r.position
           /\ exited' = r.exited
           /\ self_state' = r.state
    /\ visited' = visited \cup {SimRegs}
    /\ UNCHANGED <<states, state, bits, tapeVars, steps, i, pc, nstep, moved,
                   enumerated, written, blk>>

\* the loop is left (exited is Some, or the break on HALT): steps[i] is stored
Store ==
    /\ pc = "while"
    /\ SimEnded
    /\ steps' = Assign(steps, i,
                       CompiledStep(tape, direction_state(self_state, exited)))
    /\ written' = Append(written, i)
    /\ i' = i + 1
    /\ pc' = "for"
    /\ UNCHANGED <<states, state, bits, tapeVars, self_state, tape, position,
                   exited, visited, nstep, moved, enumerated, blk>>

\* the range is exhausted: compile returns the table
Return ==
    /\ pc = "for"
    /\ i = num_steps(N, bits)
    /\ pc' = "done"
    /\ UNCHANGED <<states, state, bits, tapeVars, compileVars, historyVars, blk>>

\* compile is called on a machine of any table, in whatever state it is in
Init ==
    /\ states \in Machines
    /\ bits \in Widths
    /\ self_state \in {HALT} \cup {Index(k) : k \in 0..(Len(states) - 1)}
    /\ state = Index(0)
    /\ right = NewTape.right
    /\ left = NewTape.left
    /\ vec_index = NewTape.vec_index
    /\ bit_index = NewTape.bit_index
    /\ half = NewTape.half
    /\ steps = NoSteps
    /\ i = 0
    /\ tape = 0
    /\ position = 0
    /\ exited = None
    /\ HistoryZero
    /\ blk = NoBlock
    /\ pc = "compile"

Next == CompileStart \/ ForBegin \/ While \/ Store \/ Return

Spec == Init /\ [][Next]_vars

-----------------------------------------------------------------------------
(* A block-local run of the raw interpreter beside the simulation of one     *)
(* slot: the Tape holds the value blk.value in block blk.index of the half   *)
(* blk.half, with the cursor on that block's entry cell; compile is at the   *)
(* for iteration of slot (s, c, e), where c is blk.value or its mirror image. *)

\* the value of w bits whose bit k is bit w - 1 - k of x
RECURSIVE Mirror(_, _)
Mirror(x, w) ==
    IF w = 0 THEN 0 ELSE (x % 2) * Pow2(w - 1) + Mirror(x \div 2, w - 1)

\* the leftmost cell of a block is bit w - 1 in the left half (where moving
\* Left raises bit_index) and bit 0 in the right half (where moving Right does)
EntryCell(h, e, w) ==
    IF (h = Left) = (e = 0) THEN w - 1 ELSE 0

Zeros(n) == [k \in 1..n |-> 0]

InitRefine ==
    /\ states \in Machines
    /\ bits \in Widths
    /\ \E s \in 0..(Len(states) - 1), e \in {0, 1}, v \in 0..(Pow2(bits) - 1),
          h \in TapeMotion, k \in {0, 1} :
          \E c \in IF h = Left THEN {v} ELSE {v, Mirror(v, bits)} :
             /\ state = Index(s)
             /\ blk = [half |-> h, index |-> k, value |-> v]
             /\ half = h
             /\ vec_index = k
             /\ bit_index = EntryCell(h, e, bits)
             /\ left = IF h = Left THEN [Zeros(k + 2) EXCEPT ![k + 1] = v]
                       ELSE Zeros(1)
             /\ right = IF h = Right THEN [Zeros(k + 2) EXCEPT ![k + 1] = v]
                        ELSE Zeros(1)
             /\ i = s * Pow2(bits + 1) + e * Pow2(bits) + c
    /\ steps = NewSteps(num_steps(Len(states), bits))
    /\ self_state = Index(0)
    /\ tape = 0
    /\ position = 0
    /\ exited = None
    /\ HistoryZero
    /\ pc = "for"

InBlock == half = blk.half /\ vec_index = blk.index

\* one call of step while the cursor is in the block and the state is live,
\* made once the slot's simulation has ended
BlockStep ==
    /\ pc = "while"
    /\ SimEnded
    /\ InBlock
    /\ IsIndex(state)
    /\ LET r == step(states, TapeRec, IndexOf(state), bits)
       IN  /\ TapeBecomes(r.tape)
           /\ state' = r.state
    /\ nstep' = IF nstep >= MaxSteps THEN nstep ELSE nstep + 1
    /\ UNCHANGED <<states, bits, compileVars, pc, visited, moved, enumerated,
                   written, blk>>

NextRefine == ForBegin \/ While \/ BlockStep

SpecRefine == InitRefine /\ [][NextRefine]_vars

-----------------------------------------------------------------------------
(* Properties *)

\* the slot being simulated, as the loop decodes it from i
SlotState == StateOf(i, bits)
SlotContent == TapeOf(i, bits)

\* the loop index of slot (s, c, e), e = 0 for Left entry and 1 for Right
SlotIndex(s, e, c, w) == s * Pow2(w + 1) + e * Pow2(w) + c

\* the block-local raw run is over: its cursor left the block or it halted
RawEnded == pc = "while" /\ SimEnded /\ (~InBlock \/ ~IsIndex(state))

\* the value now stored in the block the raw run was confined to
StoredBlock == (IF blk.half = Left THEN left ELSE right)[blk.index + 1]

\* the side the raw cursor left the block from, None while it is inside
RawExit ==
    IF InBlock THEN None
    ELSE IF blk.half = Left
    THEN (IF half = Left /\ vec_index > blk.index THEN Left ELSE Right)
    ELSE (IF half = Right /\ vec_index > blk.index THEN Right ELSE Left)

\* the raw run and the simulation ended alike, the block holding content
SameOutcome(content) ==
    /\ state = self_state
    /\ RawExit = exited
    /\ StoredBlock = content

\* C1 as stated: when the block-local raw run from (s, entry cell of e) on a
\* block whose stored value is c has ended, it ended with the stored value,
\* exit side and state of the simulation of slot (s, c, e), for a block of
\* the left sequence and for a block of the right sequence
C1_SameStoredValue ==
    (RawEnded /\ SlotContent = blk.value) => SameOutcome(tape)

\* C1 amended: the same for a block of the left sequence; for a block of the
\* right sequence the stored values are the mirror images (bit k <-> bit
\* bits-1-k) of the simulation's initial and final content
C1_Refinement ==
    /\ (RawEnded /\ blk.half = Left /\ SlotContent = blk.value)
          => SameOutcome(tape)
    /\ (RawEnded /\ blk.half = Right /\ SlotContent = Mirror(blk.value, bits))
          => SameOutcome(Mirror(tape, bits))

\* a right-sequence block away from the origin, of an asymmetric content, that
\* the raw run left after moving inside it
C1_Witness ==
    /\ RawEnded
    /\ blk.half = Right
    /\ blk.index = 1
    /\ SlotContent = Mirror(blk.value, bits)
    /\ SlotContent # blk.value
    /\ nstep >= 3
    /\ IsIndex(state)
    /\ ~InBlock

\* the number of while iterations made in this slot, as long as none began
\* with registers an earlier one began with
Iterations == Cardinality(visited)

\* the raw step for (s, reading c)
RawStepFor(s, c) == IF c = Zero THEN states[s + 1].zero ELSE states[s + 1].one

\* C2: with bits = 1 the simulation of every slot (s, c, e) makes exactly one
\* transition and ends with content = print, exit side = motion and
\* state = next_state of the raw step for (s, reading c); the stored tape is
\* that print
C2_WidthOneIsRawTable ==
    bits = 1 =>
        /\ (pc = "while" /\ ~SimEnded) => Iterations = 0
        /\ (pc = "while" /\ SimEnded) =>
              /\ Iterations = 1
              /\ tape = RawStepFor(SlotState, SlotContent).print
              /\ exited = RawStepFor(SlotState, SlotContent).motion
              /\ self_state = RawStepFor(SlotState, SlotContent).next_state
        /\ (pc = "done") =>
              \A s \in 0..(N - 1), e \in {0, 1}, c \in Bit :
                 At(steps, SlotIndex(s, e, c, 1)).tape = RawStepFor(s, c).print

C2_Witness ==
    /\ bits = 1
    /\ pc = "while"
    /\ SimEnded
    /\ Iterations = 1
    /\ SlotState = 1
    /\ self_state = Index(0)
    /\ exited = Left

\* how often v occurs in the sequence q
Occurrences(q, v) == Cardinality({k \in 1..Len(q) : q[k] = v})

\* C3: the table has N * 2 * 2^bits entries; (s, e, c) -> (s << bits+1) |
\* (e << bits) | c maps the combinations with s < N one-to-one onto its
\* indices; only such combinations are simulated, and when compile returns
\* each has been simulated once and each index assigned once
C3_EveryCombinationOnce ==
    /\ pc # "compile" => steps.len = N * 2 * Pow2(bits)
    /\ \A k \in 1..Len(enumerated) :
          /\ enumerated[k][1] \in 0..(N - 1)
          /\ enumerated[k][3] \in 0..(Pow2(bits) - 1)
          /\ enumerated[k][2] \in {0, Pow2(bits)}
    /\ pc = "done" =>
          /\ \A s \in 0..(N - 1), e \in {0, 1}, c \in 0..(Pow2(bits) - 1) :
                /\ SlotIndex(s, e, c, bits) \in 0..(steps.len - 1)
                /\ Occurrences(enumerated, <<s, e * Pow2(bits), c>>) = 1
                /\ enumerated[SlotIndex(s, e, c, bits) + 1] = <<s, e * Pow2(bits), c>>
          /\ DOMAIN steps.at = 0..(steps.len - 1)
          /\ \A idx \in 0..(steps.len - 1) :
                /\ Occurrences(written, idx) = 1
                /\ \E s \in 0..(N - 1), e \in {0, 1}, c \in 0..(Pow2(bits) - 1) :
                      idx = SlotIndex(s, e, c, bits)
          /\ Len(enumerated) = steps.len
          /\ Len(written) = steps.len

\* compile returned the table of the five-state machine, whose slot
\* (0, 0, Left) halts on its first transition
C3_Witness ==
    /\ pc = "done"
    /\ states = COPY_MACH
    /\ bits = 2
    /\ get_state(At(steps, SlotIndex(0, 0, 0, bits))) = -1


\* C4 as stated: the simulation of every slot ends.  An iteration is a
\* function of the registers (content, position, state) it begins with, so a
\* simulation that begins an iteration with registers an earlier iteration of
\* the same slot began with repeats from there forever: every simulation
\* ends if and only if that never happens
C4_SimulationEnds ==
    (pc = "while" /\ ~SimEnded) => SimRegs \notin visited

\* the slot last stored, while the registers still hold its simulation's end
JustStored == pc \in {"for", "done"} /\ i > 0 /\ written # <<>>
LastSlot == At(steps, i - 1)

\* C5 as stated: a slot whose simulation ended in Index(n) stores n in the
\* bits above the low bit of direction_state, and get_state returns n
C5_StateAboveLowBit ==
    (JustStored /\ IsIndex(self_state)) =>
        /\ LastSlot.direction_state \div 2 = IndexOf(self_state)
        /\ get_state(LastSlot) = IndexOf(self_state)

\* C6 as stated: a slot whose simulation left the block (here: in a live
\* state) stores low bit 0 for a Right exit and 1 for a Left exit, and
\* get_direction returns the exit side
C6_LowBitIsExitSide ==
    (JustStored /\ exited # None /\ IsIndex(self_state)) =>
        /\ LastSlot.direction_state % 2 = (IF exited = Right THEN 0 ELSE 1)
        /\ get_direction(LastSlot) = exited

\* C7: with N < i8::MAX, a stored slot decodes as halted (get_state = -1)
\* exactly when its simulation ended in HALT, also when that last step moved
\* off the block's edge; and at a call that passes the assertion no live
\* state index below i8::MAX packs to a byte that decodes as halted, whatever
\* the exit, while HALT always does
C7_HaltedIffHalt ==
    /\ JustStored => ((get_state(LastSlot) = -1) <=> (self_state = HALT))
    /\ (pc = "compile" /\ N < I8_MAX) =>
          \A n \in 0..(I8_MAX - 1), ex \in {None, Left, Right} :
             /\ get_state(CompiledStep(0, direction_state(Index(n), ex))) # -1
             /\ get_state(CompiledStep(0, direction_state(HALT, ex))) = -1

\* a slot whose last step both moved off the block's edge and halted
C7_Witness ==
    /\ JustStored
    /\ self_state = HALT
    /\ exited # None
    /\ bits > 1
    /\ N > 1

\* the bit of the cell at signed position p (0 where no block is allocated):
\* cell p >= 0 is bit p % bits of right[p / bits], cell p < 0 is bit
\* (-p-1) % bits of left[(-p-1) / bits]
CellAt(p) ==
    LET q == IF p >= 0 THEN p ELSE -p - 1
        vec == IF p >= 0 THEN right ELSE left
    IN  IF q \div bits < Len(vec) THEN get_bit(vec[(q \div bits) + 1], q % bits)
        ELSE 0

\* the allocated positions and those holding One
Allocated == (-(Len(left) * bits))..(Len(right) * bits - 1)
Ones == {p \in Allocated : CellAt(p) = One}

\* C8: BB2_MACH run from state 0 on a fresh Tape is live before its 6th step
\* and HALT after it; run then returns with the cells -2..1 (four contiguous
\* cells across the origin) holding One, no other, and the cursor on or next
\* to one of them
C8_BusyBeaver2 ==
    (states = BB2_MACH /\ blk.value = 0) =>
        /\ nstep <= 6
        /\ IsIndex(state) <=> nstep < 6
        /\ pc = "returned" =>
              /\ nstep = 6
              /\ state = HALT
              /\ Cardinality(Ones) = 4
              /\ Ones = (-2)..1
              /\ \E p \in Ones : get_index(TapeRec, bits) - p \in {-1, 0, 1}

C8_Witness ==
    /\ states = BB2_MACH
    /\ blk.value = 0
    /\ pc = "returned"
    /\ bits = 2
    /\ Len(left) = 1
    /\ Len(right) = 1

\* C9: the copier of main run from state 0 on right[0] = 0b011 halts (at its
\* 15th step); run then returns with cells 0..2 holding 1, 1, 0 as at the
\* start, cells 3..5 holding the same 1, 1, 0, and every other cell Zero
C9_Copier ==
    (states = COPY_MACH /\ blk.value = MainSeed) =>
        /\ nstep <= 15
        /\ IsIndex(state) <=> nstep < 15
        /\ pc = "returned" =>
              /\ state = HALT
              /\ \A p \in 0..2 : CellAt(p) = get_bit(MainSeed, p)
              /\ \A p \in 0..2 : CellAt(p + 3) = get_bit(MainSeed, p)
              /\ \A p \in Allocated \ (0..5) : CellAt(p) = Zero

C9_Witness ==
    /\ states = COPY_MACH
    /\ blk.value = MainSeed
    /\ pc = "returned"
    /\ bits = 2
    /\ right = <<3, 2, 1>>

\* the number of move_tape calls made so far
Moves == moved[Left] + moved[Right]

\* ceil(a / b)
CeilDiv(a, b) == (a + b - 1) \div b

\* C10 as stated: after k moves all in one direction from Tape::new(), the
\* half moved away from has 1 block and the half moved into has
\* ceil((k+1)/bits)
C10_GrowthAsStated ==
    /\ moved[Left] = 0 =>
          Len(left) = 1 /\ Len(right) = CeilDiv(Moves + 1, bits)
    /\ moved[Right] = 0 =>
          Len(right) = 1 /\ Len(left) = CeilDiv(Moves + 1, bits)

\* C10 amended: all Right, the left half keeps 1 block and the right half has
\* ceil((k+1)/bits); all Left, the right half keeps 1 block and the left half
\* has ceil(k/bits) for k >= 1 and 1 for k = 0 (the first Left move only
\* crosses the origin to cell -1, bit 0 of left[0])
C10_Growth ==
    /\ moved[Left] = 0 =>
          Len(left) = 1 /\ Len(right) = CeilDiv(Moves + 1, bits)
    /\ moved[Right] = 0 =>
          /\ Len(right) = 1
          /\ Len(left) = IF Moves = 0 THEN 1 ELSE CeilDiv(Moves, bits)

\* bits + 1 moves Left: the left half has just grown to 2 blocks
C10_Witness ==
    /\ moved[Right] = 0
    /\ moved[Left] = bits + 1
    /\ bits > 1
    /\ Len(left) = 2
    /\ Len(right) = 1


\* C11: a call of step with the cursor at signed position p leaves the cell
\* at p holding step.print and every other cell as it was; afterwards the
\* cursor is at p + 1 or p - 1, and get() returns what that cell held before
C11_StepIsLocal ==
    [][RunStep =>
         \A p \in {get_index(TapeRec, bits)} :
         \A stp \in {RawStepFor(IndexOf(state), get(TapeRec))} :
         \A np \in {IF stp.motion = Left THEN p - 1 ELSE p + 1} :
         \A old \in {CellAt(np)} :
             /\ CellAt(p)' = stp.print
             /\ \A q \in (Allocated \cup Allocated') \ {p} : CellAt(q)' = CellAt(q)
             /\ get_index(TapeRec, bits)' = np
             /\ get(TapeRec)' = IF np = p THEN stp.print ELSE old
      ]_vars

\* steps were made on both sides of the origin and in a second left block
C11_Witness ==
    /\ pc = "run"
    /\ nstep >= 3
    /\ half = Left
    /\ vec_index = 1
    /\ Ones # {}


\* the cursor that a signed position p stands for
CursorOf(p) ==
    LET q == IF p >= 0 THEN p ELSE -p - 1
    IN  [half |-> IF p >= 0 THEN Right ELSE Left,
         vec_index |-> q \div bits,
         bit_index |-> q % bits]

\* C12: in every reachable Tape state get_index is vec_index * W + bit_index
\* on the right half and the complement of that on the left half, the cursor
\* is recovered from it (no two cursors share an index) and it names the cell
\* get() reads; every move_tape(Right) adds exactly 1 to it and every
\* move_tape(Left) subtracts exactly 1, block boundaries and the origin
\* included
C12_IndexTracksCursor ==
    /\ [](pc = "tape" =>
            \A p \in {get_index(TapeRec, bits)} :
                /\ p = IF half = Right THEN vec_index * bits + bit_index
                       ELSE -(vec_index * bits + bit_index) - 1
                /\ CursorOf(p) = [half |-> half, vec_index |-> vec_index,
                                  bit_index |-> bit_index]
                /\ CellAt(p) = get(TapeRec))
    /\ [][\A p \in {get_index(TapeRec, bits)} :
            /\ moved'[Right] > moved[Right] => get_index(TapeRec, bits)' = p + 1
            /\ moved'[Left] > moved[Left] => get_index(TapeRec, bits)' = p - 1
            /\ moved' = moved => get_index(TapeRec, bits)' = p
         ]_vars

\* the cursor went right of the origin, came back across it and crossed a
\* block boundary of the left half
C12_Witness ==
    /\ pc = "tape"
    /\ bits = 2
    /\ moved[Right] > 0
    /\ half = Left
    /\ vec_index = 1
    /\ get_index(TapeRec, bits) = -3


\* C13: after any sequence of get, set and move_tape calls from Tape::new the
\* cursor addresses an existing cell: vec_index is a natural less than the
\* block count of the active half and bit_index is a natural less than W
C13_CursorInBounds ==
    pc = "tape" =>
        /\ vec_index \in 0..(Len(IF half = Left THEN left ELSE right) - 1)
        /\ bit_index \in 0..(bits - 1)
        /\ Len(left) >= 1
        /\ Len(right) >= 1

\* the cursor stands in the last block of a left half that has grown, after
\* a write
C13_Witness ==
    /\ pc = "tape"
    /\ half = Left
    /\ Len(left) >= 2
    /\ vec_index = Len(left) - 1
    /\ Ones # {}


\* C14: run returns if and only if the machine reaches HALT: whenever run
\* has returned the state is HALT, it returns only from a HALT state, step
\* is never called while the state is HALT, and once the state is HALT the
\* only thing run can do is return
C14_RunReturnsIffHalt ==
    /\ [](pc = "returned" => state = HALT)
    /\ []((pc = "run" /\ state = HALT) => (ENABLED RunReturn /\ ~ENABLED RunStep))
    /\ []((pc = "run" /\ state # HALT) => ~ENABLED RunReturn)
    /\ [][nstep' # nstep => IsIndex(state)]_vars
    /\ [][pc' # pc => (state = HALT /\ state' = HALT /\ pc' = "returned")]_vars

\* run has returned after making steps
C14_Witness ==
    /\ pc = "returned"
    /\ nstep >= 2
    /\ state = HALT

\* a machine that has made MaxSteps steps without reaching HALT: run has not
\* returned
C14_StillRunning ==
    /\ pc = "run"
    /\ nstep = MaxSteps
    /\ IsIndex(state)


\* the character Display writes for a bit
CharOf(b) == IF b = One THEN "1" ELSE "0"

\* C15: the rendering of a Tape lists the allocated cells in tape order: it
\* has one character per allocated cell, for every allocated signed position
\* p the character at index (left block count * W + p) is the bit stored at
\* p, and get_display_index is the index of the cursor's cell, whose
\* character equals get()
C15_RenderInTapeOrder ==
    pc = "tape" =>
        LET out == fmt(TapeRec, bits)
            d == get_display_index(TapeRec, bits)
        IN  /\ Len(out) = (Len(left) + Len(right)) * bits
            /\ \A p \in Allocated : out[Len(left) * bits + p + 1] = CharOf(CellAt(p))
            /\ d = Len(left) * bits + get_index(TapeRec, bits)
            /\ d \in 0..(Len(out) - 1)
            /\ out[d + 1] = CharOf(get(TapeRec))

\* a tape with two left blocks of width 4, the cursor in the second one on a
\* One next to a Zero
C15_Witness ==
    /\ pc = "tape"
    /\ bits = 4
    /\ half = Left
    /\ Len(left) = 2
    /\ vec_index = 1
    /\ left[2] = 1
    /\ left[1] = 8
    /\ get(TapeRec) = One


\* every next_state of the table is HALT or an index below N
ValidTable ==
    \A k \in 1..N : \A stp \in {states[k].zero, states[k].one} :
        stp.next_state = HALT \/ IndexOf(stp.next_state) < N

\* C16: a table in which some next_state is Index(n) with n >= N is rejected
\* at construction: no constructed TuringMachine has such a next state, the
\* current state is never an index outside the table, and step never looks
\* up a state outside [0, N)
C16_OutOfRangeRejected ==
    pc # "macro" =>
        /\ ValidTable
        /\ IsIndex(state) => IndexOf(state) < N
        /\ pc # "panic"


\* C17 as stated: for the slot just stored, whose simulation ended in live
\* state n leaving the block on side x, indexing the table with any content
\* c and that slot's direction_state gives the slot of (n, c, entry side
\* opposite to x: entry bit 0 after a Right exit, 1 after a Left exit), and
\* that index is inside the table
C17_ChainedLookup ==
    (JustStored /\ IsIndex(self_state) /\ exited # None) =>
        \A c \in 0..(Pow2(bits) - 1) :
            LET k == lut_index(CompiledStep(c, LastSlot.direction_state), bits)
            IN  /\ k = SlotIndex(IndexOf(self_state),
                                 IF exited = Left THEN 1 ELSE 0, c, bits)
                /\ k < steps.len


\* C18: throughout the block-local simulation of any slot of compile, and so
\* before every read and write, the simulated head position is within 0..W-1 (it
\* is never decremented at 0 nor incremented at W-1) and the simulated
\* content is a W-bit value
C18_PositionInBlock ==
    /\ position \in 0..(bits - 1)
    /\ tape \in 0..(Pow2(bits) - 1)
    /\ (pc = "while" /\ ~SimEnded) => get_bit(tape, position) \in Bit

\* a simulation of a 4-bit block that has made several moves and stands
\* inside the block, about to read
C18_Witness ==
    /\ pc = "while"
    /\ ~SimEnded
    /\ bits = 4
    /\ Iterations >= 3
    /\ position \in {1, 2}


\* C19: a move_tape call changes no existing cell and removes no block: both
\* halves keep their blocks as a prefix, at most one block is appended in
\* all, an appended block is all zero and is appended to the half the cursor
\* is in; a get or set call changes neither the cursor nor the block counts
C19_MoveFrame ==
    [][/\ Moves' # Moves =>
            /\ \A q \in Allocated : CellAt(q)' = CellAt(q)
            /\ Len(left') >= Len(left) /\ SubSeq(left', 1, Len(left)) = left
            /\ Len(right') >= Len(right) /\ SubSeq(right', 1, Len(right)) = right
            /\ Len(left') + Len(right') <= Len(left) + Len(right) + 1
            /\ Len(left') > Len(left) =>
                  (half = Left /\ half' = Left /\ left'[Len(left')] = 0)
            /\ Len(right') > Len(right) =>
                  (half = Right /\ half' = Right /\ right'[Len(right')] = 0)
       /\ Moves' = Moves =>
            /\ UNCHANGED <<vec_index, bit_index, half>>
            /\ Len(left') = Len(left)
            /\ Len(right') = Len(right)
      ]_vars

\* the left half has just grown by a move, next to a block that holds a One
C19_Witness ==
    /\ pc = "tape"
    /\ half = Left
    /\ Len(left) = 2
    /\ vec_index = 1
    /\ bit_index = 0
    /\ left[1] # 0
    /\ left[2] = 0
    /\ Len(right) = 2


\* the registers a simulation ends with when run from r for at most fuel
\* iterations
RECURSIVE SimRun(_, _, _, _)
SimRun(table, r, w, fuel) ==
    IF r.exited # None \/ ~IsIndex(r.state) \/ fuel = 0 THEN r
    ELSE SimRun(table, sim_step(table, r, w), w, fuel - 1)

\* what slot idx holds as a function of the table and the width alone: the
\* simulation from the registers decoded from idx; a simulation that ends
\* does so within Len(table) * w * 2^w iterations, the number of distinct
\* registers
SlotResult(table, idx, w) ==
    LET r == SimRun(table,
                    [tape |-> TapeOf(idx, w), position |-> EntryPosition(idx, w),
                     exited |-> None, state |-> Index(StateOf(idx, w))],
                    w, Len(table) * w * Pow2(w))
    IN  CompiledStep(r.tape, direction_state(r.state, r.exited))

\* C20: whatever state the machine is in when compile is called (HALT or any
\* index), every slot stored holds the value determined by the transition
\* table, W and the slot's own (s, c, e) alone, and so does the whole table
\* when compile returns: it depends neither on the caller's state nor on the
\* state left behind by the simulation of another slot
C20_TableOfTableAndWidth ==
    /\ JustStored => LastSlot = SlotResult(states, i - 1, bits)
    /\ pc = "done" =>
          /\ steps.len = num_steps(N, bits)
          /\ \A k \in 0..(steps.len - 1) :
                At(steps, k) = SlotResult(states, k, bits)

\* compile has returned the table of the 5-state copier for 2-bit blocks,
\* among them a slot that ended live with the block's content changed
C20_Witness ==
    /\ pc = "done"
    /\ states = COPY_MACH
    /\ bits = 2
    /\ Len(written) = num_steps(N, bits)
    /\ \E k \in 0..(steps.len - 1) :
          /\ get_state(At(steps, k)) # -1
          /\ At(steps, k) # SlotResult(states, 0, bits)
          /\ At(steps, k).tape # TapeOf(k, bits)

====
